---------------------------- MODULE Spec2Model ----------------------------
(***************************************************************************)
(* A model of code_depth (src/src/lib.rs, src/src/main.rs): the session    *)
(* bootstrap, the workspace indexer, the call-graph builder and the        *)
(* depth/path analysis, each as a state machine over its own variables.    *)
(*                                                                         *)
(* URIs and names are sequences of one-character strings, so that prefix   *)
(* tests, prefix trimming and splitting are computed on the characters.    *)
(***************************************************************************)
EXTENDS Integers, Sequences, FiniteSets, TLC

VARIABLES
    project_root,       \* the project root URI (main's project_url)
    \* session bootstrap: init (lib.rs) as main (main.rs) calls it
    bpc,                \* position of main / init
    initResult,         \* the server's answer to the initialize request
    sent,               \* the methods of the requests sent so far
    \* get_workspace_files
    ipc,                \* position in get_workspace_files
    max_duration,       \* the caller's maximum wait, in milliseconds
    retries_left,       \* the u128 retry counter
    symbols,            \* location URIs of the symbols collected so far
    letter,             \* single-letter queries sent so far
    iret,               \* what get_workspace_files returned
    hashQueries,        \* history: "#" queries sent
    queries,            \* history: workspace_symbol queries sent
    errPhases,          \* history: phases whose query got a non-retryable error
    sentAfterError,     \* history: a query was sent after such an error
    \* get_function_calls
    gpc,                \* position in get_function_calls
    workspace_files,    \* files whose document symbols are still to fetch
    exact_definitions,  \* (file, symbol) pairs collected
    calls,              \* the edges pushed so far
    responses,          \* history: the incoming-calls response per definition
    \* get_function_depths and build_results_json (main.rs 89-90)
    apc,                \* position in main's analysis
    non_test_calls,     \* the edge list handed to get_function_depths
    depths,             \* get_function_depths' result
    results_json,       \* build_results_json's result
    \* find_items_with_different_depths on its own
    fpc,                \* position
    fdepths,            \* its argument
    flagged             \* its result

bootVars  == <<bpc, initResult, sent>>
indexVars == <<ipc, max_duration, retries_left, symbols, letter, iret,
               hashQueries, queries, errPhases, sentAfterError>>
callVars  == <<gpc, workspace_files, exact_definitions, calls, responses>>
anaVars   == <<apc, non_test_calls, depths, results_json>>
findVars  == <<fpc, fdepths, flagged>>
vars      == <<project_root, bootVars, indexVars, callVars, anaVars, findVars>>

---------------------------------------------------------------------------
(* Sequences of characters *)

\* str::starts_with
StartsWith(s, p) ==
    Len(p) <= Len(s) /\ SubSeq(s, 1, Len(p)) = p

\* The elements of a sequence
Range(s) == {s[i] : i \in 1..Len(s)}

\* All sequences over S of length at most n
SeqsUpTo(S, n) == UNION {[1..k -> S] : k \in 0..n}

\* All sequences over S of length at most n that have no element twice
DistinctSeqsUpTo(S, n) == {s \in SeqsUpTo(S, n) : Cardinality(Range(s)) = Len(s)}

---------------------------------------------------------------------------
(* Session bootstrap: lib.rs init, main.rs main lines 72-83 *)

\* A provider field of the server capabilities: absent (None), a boolean, or options
ProviderValues == {"absent", "false", "true", "options"}

Capabilities ==
    [workspace_symbol_provider : ProviderValues,
     document_symbol_provider  : ProviderValues,
     call_hierarchy_provider   : ProviderValues]

NoCapabilities ==
    [workspace_symbol_provider |-> "absent",
     document_symbol_provider  |-> "absent",
     call_hierarchy_provider   |-> "absent"]

\* A provider read as a boolean the wrong way: Left(_) => true
ProviderEnabledAnyBoolean(provider) ==
    CASE provider = "absent"  -> FALSE
      [] provider = "false"   -> TRUE
      [] provider = "true"    -> TRUE
      [] provider = "options" -> TRUE

\* match provider { Some(Left(enabled)) => enabled, Some(Right(_)) => true, None => false }
ProviderEnabled(provider) ==
    CASE provider = "absent"  -> FALSE
      [] provider = "false"   -> FALSE
      [] provider = "true"    -> TRUE
      [] provider = "options" -> TRUE

required_methods ==
    {"workspace/symbol", "textDocument/documentSymbol", "callHierarchy/incomingCalls"}

supported_methods(caps) ==
    (IF ProviderEnabled(caps.workspace_symbol_provider)
        THEN {"workspace/symbol"} ELSE {})
    \cup (IF ProviderEnabled(caps.document_symbol_provider)
        THEN {"textDocument/documentSymbol"} ELSE {})
    \cup (IF ProviderEnabled(caps.call_hierarchy_provider)
        THEN {"callHierarchy/incomingCalls"} ELSE {})

BootInit ==
    /\ bpc = "start"
    /\ initResult = [tag |-> "none", caps |-> NoCapabilities]
    /\ sent = {}

\* init sends the initialize request and awaits the answer (lib.rs 23-38)
InitRequest ==
    /\ bpc = "start"
    /\ sent' = sent \cup {"initialize"}
    /\ \/ initResult' = [tag |-> "err", caps |-> NoCapabilities]
       \/ \E caps \in Capabilities : initResult' = [tag |-> "ok", caps |-> caps]
    /\ bpc' = "init_answered"

\* init checks the capabilities of an Ok answer and returns it (lib.rs 41-92)
InitCheck ==
    /\ bpc = "init_answered"
    /\ bpc' = IF initResult.tag = "ok"
                 /\ required_methods # supported_methods(initResult.caps)
              THEN "init_panicked"      \* assert_eq! fails inside init
              ELSE "init_returned"
    /\ UNCHANGED <<initResult, sent>>

\* response.expect("failed to init lang server") (main.rs 74)
MainExpectInit ==
    /\ bpc = "init_returned"
    /\ bpc' = IF initResult.tag = "ok" THEN "initialized" ELSE "main_panicked"
    /\ UNCHANGED <<initResult, sent>>

\* main calls get_workspace_files and unwraps it (main.rs 76-79)
MainWorkspaceFiles ==
    /\ bpc = "initialized"
    /\ sent' = sent \cup {"workspace/symbol"}
    /\ \E ok \in BOOLEAN : bpc' = IF ok THEN "indexed" ELSE "main_panicked"
    /\ UNCHANGED initResult

\* main calls get_function_calls and unwraps it (main.rs 81-83); a workspace
\* without files sends no request
MainFunctionCalls ==
    /\ bpc = "indexed"
    /\ \E methods \in {{}, {"textDocument/documentSymbol"},
                       {"textDocument/documentSymbol", "callHierarchy/incomingCalls"}} :
          sent' = sent \cup methods
    /\ \E ok \in BOOLEAN : bpc' = IF ok THEN "called" ELSE "main_panicked"
    /\ UNCHANGED initResult

BootIdle ==
    /\ bpc = "idle"
    /\ initResult = [tag |-> "none", caps |-> NoCapabilities]
    /\ sent = {}

bootFrame == <<project_root, indexVars, callVars, anaVars, findVars>>

BootNext ==
    \/ InitRequest /\ UNCHANGED bootFrame
    \/ InitCheck /\ UNCHANGED bootFrame
    \/ MainExpectInit /\ UNCHANGED bootFrame
    \/ MainWorkspaceFiles /\ UNCHANGED bootFrame
    \/ MainFunctionCalls /\ UNCHANGED bootFrame

---------------------------------------------------------------------------
(* Workspace indexer: lib.rs get_workspace_files *)

\* The caller's maximum wait is a multiple of WaitStepMs, at most MaxWaitSteps of them
MaxWaitSteps == 10
WaitStepMs == 50
\* The server answers "still indexing" to at most this many "#" queries; its
\* indexing has ended by the next one
MaxStillIndexing == 9

retry_sleep_duration == 100
StillIndexingCode == -32801
\* The error codes a response may carry: the retryable one and two others
ErrorCodes == {StillIndexingCode, -32603, -32800}
AlphabetLen == 26

\* Project roots and file URIs
RootP == <<"p", "/">>
RootPS == <<"p", "/", "s", "/">>
ProjectRoots == {RootP, RootPS}
UriPA == <<"p", "/", "a">>
UriPSB == <<"p", "/", "s", "/", "b">>
UriQA == <<"q", "/", "a">>
FileUris == {UriPA, UriPSB, UriQA}

\* A workspace_symbol response: Ok(Some(symbols)), Ok(None) or Err(LspError{code})
WsSome(uris) == [tag |-> "some", uris |-> uris, code |-> 0]
WsNone == [tag |-> "none", uris |-> {}, code |-> 0]
WsErr(code) == [tag |-> "err", uris |-> {}, code |-> code]
WsResponses ==
    {WsSome(uris) : uris \in SUBSET {UriPA, UriQA}}
    \cup {WsNone} \cup {WsErr(code) : code \in ErrorCodes}

\* The answers the server may give to a "#" query that follows n answers of
\* "still indexing" (lib.rs 107 and 121)
HashResponses(n) ==
    IF n < MaxStillIndexing THEN WsResponses
    ELSE WsResponses \ {WsErr(StillIndexingCode)}

\* A u128 counter: the value n, or after wrapping below zero the value 2^128 - n
U128(n) == [wrapped |-> FALSE, n |-> n]
U128IsZero(c) == ~c.wrapped /\ c.n = 0
\* c - 1 with wrapping arithmetic (overflow checks off)
U128WrappingDec(c) ==
    IF c.wrapped THEN [wrapped |-> TRUE, n |-> c.n + 1]
    ELSE IF c.n = 0 THEN [wrapped |-> TRUE, n |-> 1]
    ELSE [wrapped |-> FALSE, n |-> c.n - 1]

\* assert_eq!(e.code, -32801, ...) (lib.rs 113)
IsStillIndexing(code) == code = StillIndexingCode

\* if let Ok(Some(result)) = &mut result { symbols.append(result) }
AppendSymbols(syms, r) == IF r.tag = "some" THEN syms \cup r.uris ELSE syms

IsFatalCode(r) == r.tag = "err" /\ r.code # StillIndexingCode

IndexIdle ==
    /\ ipc = "idle"
    /\ max_duration = 0
    /\ retries_left = U128(0)
    /\ symbols = {}
    /\ letter = 0
    /\ iret = [tag |-> "none", files |-> {}]
    /\ hashQueries = 0
    /\ queries = 0
    /\ errPhases = {}
    /\ sentAfterError = FALSE

IndexInit ==
    /\ ipc = "start"
    /\ max_duration \in {WaitStepMs * k : k \in 0..MaxWaitSteps}
    /\ retries_left = U128(0)
    /\ symbols = {}
    /\ letter = 0
    /\ iret = [tag |-> "none", files |-> {}]
    /\ hashQueries = 0
    /\ queries = 0
    /\ errPhases = {}
    /\ sentAfterError = FALSE

\* lib.rs 100-102
IndexStart ==
    /\ ipc = "start"
    /\ retries_left' = U128(max_duration \div retry_sleep_duration)
    /\ ipc' = "query_hash"
    /\ UNCHANGED <<max_duration, symbols, letter, iret, hashQueries, queries,
                   errPhases, sentAfterError>>

\* One workspace_symbol("#") query and what the loop does with its response
\* (lib.rs 107 or 121, then 111-119 on an error, 124-127 on success)
QueryHash ==
    /\ ipc = "query_hash"
    /\ hashQueries' = hashQueries + 1
    /\ queries' = queries + 1
    /\ sentAfterError' = (sentAfterError \/ errPhases # {})
    /\ \E r \in HashResponses(hashQueries) :
         /\ errPhases' = IF IsFatalCode(r) THEN errPhases \cup {"hash"} ELSE errPhases
         /\ IF r.tag # "err"
            THEN /\ symbols' = AppendSymbols(symbols, r)
                 /\ ipc' = "query_empty"
                 /\ UNCHANGED <<retries_left, iret>>
            ELSE IF ~IsStillIndexing(r.code)
            THEN /\ ipc' = "assert_panicked"
                 /\ UNCHANGED <<retries_left, symbols, iret>>
            ELSE IF U128IsZero(retries_left)
            THEN \* retries_left -= 1 at zero: a panic with overflow checks,
                 \* a wrap to 2^128 - 1 without
                 \/ /\ ipc' = "overflow_panicked"
                    /\ UNCHANGED <<retries_left, symbols, iret>>
                 \/ /\ retries_left' = U128WrappingDec(retries_left)
                    /\ ipc' = "query_hash"
                    /\ UNCHANGED <<symbols, iret>>
            ELSE /\ retries_left' = U128WrappingDec(retries_left)
                 /\ IF U128IsZero(retries_left')
                    THEN /\ ipc' = "returned"
                         /\ iret' = [tag |-> "timeout", files |-> {}]
                    ELSE /\ ipc' = "query_hash"
                         /\ UNCHANGED iret
                 /\ UNCHANGED symbols
    /\ UNCHANGED <<max_duration, letter>>

\* workspace_symbol("") (lib.rs 130-134)
QueryEmpty ==
    /\ ipc = "query_empty"
    /\ queries' = queries + 1
    /\ sentAfterError' = (sentAfterError \/ errPhases # {})
    /\ \E r \in WsResponses :
         /\ errPhases' = IF IsFatalCode(r) THEN errPhases \cup {"empty"} ELSE errPhases
         /\ symbols' = AppendSymbols(symbols, r)
    /\ ipc' = "query_letter"
    /\ UNCHANGED <<max_duration, retries_left, letter, iret, hashQueries>>

\* One iteration of the letter loop (lib.rs 137-143)
QueryLetter ==
    /\ ipc = "query_letter"
    /\ letter < AlphabetLen
    /\ letter' = letter + 1
    /\ queries' = queries + 1
    /\ sentAfterError' = (sentAfterError \/ errPhases # {})
    /\ \E r \in WsResponses :
         /\ errPhases' = IF IsFatalCode(r) THEN errPhases \cup {"letter"} ELSE errPhases
         /\ symbols' = AppendSymbols(symbols, r)
    /\ UNCHANGED <<ipc, max_duration, retries_left, iret, hashQueries>>

\* The project-boundary filter and the return (lib.rs 145-155)
IndexReturn ==
    /\ ipc = "query_letter"
    /\ letter = AlphabetLen
    /\ iret' = [tag |-> "ok",
                files |-> {uri \in symbols : StartsWith(uri, project_root)}]
    /\ ipc' = "returned"
    /\ UNCHANGED <<max_duration, retries_left, symbols, letter, hashQueries,
                   queries, errPhases, sentAfterError>>

indexFrame == <<project_root, bootVars, callVars, anaVars, findVars>>

IndexNext ==
    \/ IndexStart /\ UNCHANGED indexFrame
    \/ QueryHash /\ UNCHANGED indexFrame
    \/ QueryEmpty /\ UNCHANGED indexFrame
    \/ QueryLetter /\ UNCHANGED indexFrame
    \/ IndexReturn /\ UNCHANGED indexFrame

---------------------------------------------------------------------------
(* Call-graph builder: lib.rs get_function_calls, update_exact_definitions *)

\* An incoming-calls response names at most this many callers
MaxCallers == 1

\* lsp_types::CallHierarchyItem: the owning file, the name, the selection range,
\* and the opaque token (data, "none" for None); tags, detail, kind and range
\* behave as data does and are folded into it
Item(uri, name, sel, data) == [uri |-> uri, name |-> name, sel |-> sel, data |-> data]

\* lsp_types::DocumentSymbol; children None and Some(vec![]) are both <<>>
Symbol(name, kind, sel, children) ==
    [name |-> name, kind |-> kind, sel |-> sel, children |-> children]

\* A function with a nested method
TreeFG == << Symbol(<<"f">>, "function", 1, << Symbol(<<"g">>, "method", 2, <<>>) >>) >>
\* A struct (not collected) with a method
TreeSM == << Symbol(<<"s">>, "struct", 1, << Symbol(<<"m">>, "method", 2, <<>>) >>) >>

\* document_symbol responses: Ok(Some(Nested)), Ok(Some(Flat)), Ok(None), Err
DocResponses ==
    {[tag |-> "nested", symbols |-> t] : t \in {TreeFG, TreeSM}}
    \cup {[tag |-> t, symbols |-> <<>>] : t \in {"flat", "none", "err"}}

\* The callers the server may name: one inside RootP only, one inside both roots
CallerPA == Item(UriPA, <<"c">>, 7, "t1")
CallerPSB == Item(UriPSB, <<"d">>, 8, "t2")
Callers == {CallerPA, CallerPSB}

\* call_hierarchy_incoming_calls responses: Ok(Some(calls)), Ok(None), Err
IncomingResponses ==
    {[tag |-> "some", callers |-> cs] : cs \in SeqsUpTo(Callers, MaxCallers)}
    \cup {[tag |-> t, callers |-> <<>>] : t \in {"none", "err"}}

RECURSIVE update_exact_definitions(_, _, _)
\* lib.rs 233-247
update_exact_definitions(syms, file, defs) ==
    IF syms = <<>> THEN defs
    ELSE LET symbol == Head(syms)
             pushed == IF symbol.kind = "function" \/ symbol.kind = "method"
                       THEN Append(defs, <<file, symbol>>)
                       ELSE defs
             nested == update_exact_definitions(symbol.children, file, pushed)
         IN  update_exact_definitions(Tail(syms), file, nested)

\* lib.rs 182-191
target_item(definition) ==
    Item(definition[1], definition[2].name, definition[2].sel, "none")

RECURSIVE KeepInProject(_, _, _)
\* The callers of a response whose URI starts with the root, each paired with
\* the target (lib.rs 199-209)
KeepInProject(root, target, callers) ==
    IF callers = <<>> THEN <<>>
    ELSE LET rest == KeepInProject(root, target, Tail(callers))
         IN  IF StartsWith(Head(callers).uri, root)
             THEN << <<Head(callers), target>> >> \o rest
             ELSE rest

RECURSIVE KeepAll(_, _, _)
KeepAll(root, target, callers) ==
    IF callers = <<>> THEN <<>>
    ELSE << <<Head(callers), target>> >> \o KeepAll(root, target, Tail(callers))

\* The boundary test applied to the callee's file instead of the caller's
IncomingEdgesByTarget(root, target, r) ==
    IF r.tag = "some" /\ StartsWith(target.uri, root)
    THEN KeepAll(root, target, r.callers)
    ELSE <<>>

\* The edges one response contributes: match result { ... } (lib.rs 197-227)
IncomingEdges(root, target, r) ==
    IF r.tag = "some" THEN KeepInProject(root, target, r.callers) ELSE <<>>

\* An error that ends the function instead of being logged
PositionAfterIncomingAborting(r) ==
    IF r.tag = "err" THEN "returned_err" ELSE "calls"

\* Where the loop stands after one response: every arm falls through to the
\* next definition (lib.rs 197-228)
PositionAfterIncoming(r) == "calls"

CallIdle ==
    /\ gpc = "idle"
    /\ workspace_files = {}
    /\ exact_definitions = <<>>
    /\ calls = <<>>
    /\ responses = <<>>

CallInit ==
    /\ gpc = "symbols"
    /\ workspace_files \in SUBSET {UriPA, UriPSB}
    /\ exact_definitions = <<>>
    /\ calls = <<>>
    /\ responses = <<>>

\* One iteration of the file loop, in the set's iteration order (lib.rs 166-177)
DocumentSymbols ==
    /\ gpc = "symbols"
    /\ \E file \in workspace_files, r \in DocResponses :
         IF r.tag = "err" \/ r.tag = "none"
         THEN /\ gpc' = "unwrap_panicked"
              /\ UNCHANGED <<workspace_files, exact_definitions>>
         ELSE IF r.tag = "flat"
         THEN /\ gpc' = "returned_err"
              /\ UNCHANGED <<workspace_files, exact_definitions>>
         ELSE /\ exact_definitions' =
                    update_exact_definitions(r.symbols, file, exact_definitions)
              /\ workspace_files' = workspace_files \ {file}
              /\ UNCHANGED gpc
    /\ UNCHANGED <<calls, responses>>

\* The file loop is over: let mut calls = vec![] (lib.rs 179)
StartCalls ==
    /\ gpc = "symbols"
    /\ workspace_files = {}
    /\ gpc' = "calls"
    /\ calls' = <<>>
    /\ UNCHANGED <<workspace_files, exact_definitions, responses>>

\* One iteration of the definition loop (lib.rs 180-228)
IncomingCalls ==
    /\ gpc = "calls"
    /\ Len(responses) < Len(exact_definitions)
    /\ \E r \in IncomingResponses :
         /\ calls' = calls \o IncomingEdges(project_root,
                         target_item(exact_definitions[Len(responses) + 1]), r)
         /\ responses' = Append(responses, r)
         /\ gpc' = PositionAfterIncoming(r)
    /\ UNCHANGED <<workspace_files, exact_definitions>>

\* Ok(calls) (lib.rs 230)
CallsReturn ==
    /\ gpc = "calls"
    /\ Len(responses) = Len(exact_definitions)
    /\ gpc' = "returned_ok"
    /\ UNCHANGED <<workspace_files, exact_definitions, calls, responses>>

callFrame == <<project_root, bootVars, indexVars, anaVars, findVars>>

CallNext ==
    \/ DocumentSymbols /\ UNCHANGED callFrame
    \/ StartCalls /\ UNCHANGED callFrame
    \/ IncomingCalls /\ UNCHANGED callFrame
    \/ CallsReturn /\ UNCHANGED callFrame

---------------------------------------------------------------------------
(* Depth/path analysis: lib.rs get_function_depths, build_short_fn_depths,  *)
(* build_call_hierarchy_item_name, find_items_with_different_depths;       *)
(* main.rs build_results_json                                              *)

\* An edge list handed to the analysis has at most this many edges, each
\* (caller, callee) pair once
MaxEdges == 4
\* find_items_with_different_depths on its own: an item has at most this many paths
MaxPaths == 3

\* An identity that takes the token in
KeyWithToken(item) == <<item.uri, item.name, item.sel, item.data>>

\* HashableCallHierarchyItem's Eq and Hash: the owning file, the name and the
\* selection range; the token is left out
Key(item) == <<item.uri, item.name, item.sel>>

HasKey(items, item) == \E i \in 1..Len(items) : Key(items[i]) = Key(item)

RECURSIVE FirstByKey(_, _)
\* items without the later occurrences of a key already seen, kept is the
\* accumulator (a HashSet or HashMap keeps the first occurrence inserted)
FirstByKey(items, kept) ==
    IF items = <<>> THEN kept
    ELSE FirstByKey(Tail(items),
                    IF HasKey(kept, Head(items)) THEN kept
                    ELSE Append(kept, Head(items)))

RECURSIVE CallersNotIn(_, _)
\* The callers of the edges that no edge has as a callee
CallersNotIn(edges, all) ==
    IF edges = <<>> THEN <<>>
    ELSE LET rest == CallersNotIn(Tail(edges), all)
         IN  IF \E i \in 1..Len(all) : Key(all[i][2]) = Key(Head(edges)[1])
             THEN rest
             ELSE <<Head(edges)[1]>> \o rest

\* Root discovery: the items that never occur as a callee
Roots(edges) == FirstByKey(CallersNotIn(edges, edges), <<>>)

RECURSIVE CalleesOf(_, _)
CalleesOf(edges, node) ==
    IF edges = <<>> THEN <<>>
    ELSE LET rest == CalleesOf(Tail(edges), node)
         IN  IF Key(Head(edges)[1]) = Key(node)
             THEN <<Head(edges)[2]>> \o rest
             ELSE rest

\* The callees of node, each once
Children(edges, node) == FirstByKey(CalleesOf(edges, node), <<>>)

RECURSIVE Traverse(_, _)
RECURSIVE TraverseEach(_, _, _)
\* Reachability traversal: the (item, path) pairs of path and of every simple
\* extension of it along caller->callee edges
Traverse(edges, path) ==
    << <<path[Len(path)], path>> >>
    \o TraverseEach(edges, path, Children(edges, path[Len(path)]))

TraverseEach(edges, path, children) ==
    IF children = <<>> THEN <<>>
    ELSE (IF HasKey(path, Head(children)) THEN <<>>
          ELSE Traverse(edges, Append(path, Head(children))))
         \o TraverseEach(edges, path, Tail(children))

\* graph_util::get_depths: per root, the (item, path) pairs its traversal finds
get_depths(edges) ==
    LET roots == Roots(edges)
    IN  [i \in 1..Len(roots) |-> <<roots[i], Traverse(edges, <<roots[i]>>)>>]

\* An aggregation that overwrites what the item already has
InsertPathOverwriting(map, item, item_path) ==
    IF \E i \in 1..Len(map) : Key(map[i][1]) = Key(item)
    THEN [i \in 1..Len(map) |->
            IF Key(map[i][1]) = Key(item) THEN <<map[i][1], <<item_path>>>>
            ELSE map[i]]
    ELSE Append(map, <<item, <<item_path>>>>)

\* An aggregation that keeps the first path of an item only
InsertPathOnce(map, item, item_path) ==
    IF \E i \in 1..Len(map) : Key(map[i][1]) = Key(item)
    THEN map
    ELSE Append(map, <<item, <<item_path>>>>)

\* item_paths_from_roots.entry(item).or_default().push(path) (lib.rs 264-272);
\* the map is the sequence of its entries, each key the first occurrence inserted
InsertPath(map, item, item_path) ==
    IF \E i \in 1..Len(map) : Key(map[i][1]) = Key(item)
    THEN [i \in 1..Len(map) |->
            IF Key(map[i][1]) = Key(item)
            THEN <<map[i][1], Append(map[i][2], item_path)>>
            ELSE map[i]]
    ELSE Append(map, <<item, <<item_path>>>>)

RECURSIVE InsertItems(_, _)
\* for (item, item_path) in items { ... } (lib.rs 263-273)
InsertItems(map, items) ==
    IF items = <<>> THEN map
    ELSE InsertItems(InsertPath(map, Head(items)[1], Head(items)[2]), Tail(items))

RECURSIVE InsertRoots(_, _)
\* for (_, items) in depths_by_root { ... } (lib.rs 262-274)
InsertRoots(map, depths_by_root) ==
    IF depths_by_root = <<>> THEN map
    ELSE InsertRoots(InsertItems(map, Head(depths_by_root)[2]), Tail(depths_by_root))

\* The HashMap once both loops have run (lib.rs 258-274), its entries in the
\* order of their insertion
item_paths_from_roots(edges) == InsertRoots(<<>>, get_depths(edges))

\* HashMap::into_iter (lib.rs 276-277): the entries in an order that std's
\* randomly seeded hasher decides, any order from one run to the next
IntoIter(map) ==
    {[i \in 1..Len(map) |-> map[f[i]]] : f \in Permutations(1..Len(map))}

\* lib.rs 249-280: the vectors the function may return
get_function_depths(edges) == IntoIter(item_paths_from_roots(edges))

RECURSIVE TrimStartMatches(_, _)
\* str::trim_start_matches: the prefix is removed as often as it occurs
TrimStartMatches(s, prefix) ==
    IF prefix # <<>> /\ StartsWith(s, prefix)
    THEN TrimStartMatches(SubSeq(s, Len(prefix) + 1, Len(s)), prefix)
    ELSE s

RECURSIVE BeforeParen(_)
\* name.split('(').next().unwrap()
BeforeParen(name) ==
    IF name = <<>> \/ Head(name) = "(" THEN <<>>
    ELSE <<Head(name)>> \o BeforeParen(Tail(name))

\* lib.rs 307-313, on the fields it reads
ShortName(uri, name, root) ==
    TrimStartMatches(uri, root) \o <<":">> \o BeforeParen(name)

build_call_hierarchy_item_name(item, root) == ShortName(item.uri, item.name, root)

\* lib.rs 282-305
build_short_fn_depths(root, item_depths) ==
    [e \in 1..Len(item_depths) |->
        <<build_call_hierarchy_item_name(item_depths[e][1], root),
          [p \in 1..Len(item_depths[e][2]) |->
             [h \in 1..Len(item_depths[e][2][p]) |->
                build_call_hierarchy_item_name(item_depths[e][2][p][h], root)]]>>]

\* lib.rs 324-328
total_unique_depths(paths) == Cardinality({Len(paths[p]) : p \in 1..Len(paths)})

RECURSIVE HopsAreUnique(_, _, _)
\* path.iter().filter(|&hop| hop != item).all(|hop| all_hops.insert(hop.into()))
\* (lib.rs 332-335): the result and all_hops afterwards; hop != item is the
\* items' own equality, on every field
HopsAreUnique(item, hops, all_hops) ==
    IF hops = <<>> THEN [ok |-> TRUE, all_hops |-> all_hops]
    ELSE IF Head(hops) = item THEN HopsAreUnique(item, Tail(hops), all_hops)
    ELSE IF Key(Head(hops)) \in all_hops THEN [ok |-> FALSE, all_hops |-> all_hops]
    ELSE HopsAreUnique(item, Tail(hops), all_hops \cup {Key(Head(hops))})

RECURSIVE PathsAreUniqueFrom(_, _, _)
\* item_paths_from_roots.iter().all(|path| ...) (lib.rs 331-336)
PathsAreUniqueFrom(item, paths, all_hops) ==
    IF paths = <<>> THEN TRUE
    ELSE LET first == HopsAreUnique(item, Head(paths), all_hops)
         IN  first.ok /\ PathsAreUniqueFrom(item, Tail(paths), first.all_hops)

\* Uniqueness looked for within each path only: all_hops made anew per path
PathsAreUniqueWithinEachPath(item, paths) ==
    \A p \in 1..Len(paths) : HopsAreUnique(item, paths[p], {}).ok

\* lib.rs 330-336
paths_are_unique(item, paths) == PathsAreUniqueFrom(item, paths, {})

\* The filter's closure (lib.rs 323-339)
HasDifferentDepths(item, paths) ==
    total_unique_depths(paths) > 1 /\ paths_are_unique(item, paths)

\* lib.rs 316-342 with H = HashableCallHierarchyItem: the set of the flagged
\* items, each by its key
find_items_with_different_depths(item_depths) ==
    {Key(item_depths[e][1]) :
        e \in {e \in 1..Len(item_depths) :
                 HasDifferentDepths(item_depths[e][1], item_depths[e][2])}}

\* A JSON object: a function from its keys; assigning a key overwrites it
JsonSet(object, key, value) ==
    [k \in DOMAIN object \cup {key} |-> IF k = key THEN value ELSE object[k]]

EmptyObject == [k \in {} |-> <<>>]

RECURSIVE FillBuckets(_, _, _)
\* main.rs 127-137
FillBuckets(json, short_depths, problem_items) ==
    IF short_depths = <<>> THEN json
    ELSE LET item_name == Head(short_depths)[1]
             item_depths_from_roots == Head(short_depths)[2]
         IN  FillBuckets(
                IF item_name \in problem_items
                THEN [json EXCEPT !.problems = JsonSet(@, item_name, item_depths_from_roots)]
                ELSE [json EXCEPT !.ok = JsonSet(@, item_name, item_depths_from_roots)],
                Tail(short_depths), problem_items)

\* main.rs 114-140
build_results_json(item_depths, project_url) ==
    LET problem_items ==
            {ShortName(k[1], k[2], project_url) :
                k \in find_items_with_different_depths(item_depths)}
    IN  FillBuckets([ok |-> EmptyObject, problems |-> EmptyObject],
                    build_short_fn_depths(project_url, item_depths), problem_items)

\* The items of the analysed edge lists. M and X share a short name: the same
\* file, and names that agree up to the first parenthesis
UriPB == <<"p", "/", "b">>
R1 == Item(UriPA, <<"r">>, 1, "none")
R2 == Item(UriPA, <<"s">>, 2, "none")
R3 == Item(UriPA, <<"t">>, 3, "none")
M == Item(UriPB, <<"h", "(", "x", ")">>, 4, "none")
X(data) == Item(UriPB, <<"h">>, 5, data)

\* The edges an analysed list is made of, as get_function_calls builds them:
\* every callee is a target_item, without a token, every caller is the item the
\* server returned, with or without one. Three roots calling X directly or
\* through M, X itself a caller (with a token) of R1, which closes a cycle, a
\* directly recursive M, and R3 calling R1 as well
EdgePool ==
    { <<R1, X("none")>>, <<R2, X("none")>>, <<R3, M>>, <<M, X("none")>>,
      <<X("t1"), R1>>, <<M, M>>, <<R3, R1>> }

AnaIdle ==
    /\ apc = "idle"
    /\ non_test_calls = <<>>
    /\ depths = <<>>
    /\ results_json = [ok |-> EmptyObject, problems |-> EmptyObject]

AnaInit ==
    /\ apc = "calls"
    /\ non_test_calls \in DistinctSeqsUpTo(EdgePool, MaxEdges)
    /\ depths = <<>>
    /\ results_json = [ok |-> EmptyObject, problems |-> EmptyObject]

\* main.rs 89
GetFunctionDepths ==
    /\ apc = "calls"
    /\ depths' \in get_function_depths(non_test_calls)
    /\ apc' = "depths"
    /\ UNCHANGED <<non_test_calls, results_json>>

\* main.rs 90
BuildResultsJson ==
    /\ apc = "depths"
    /\ results_json' = build_results_json(depths, project_root)
    /\ apc' = "json"
    /\ UNCHANGED <<non_test_calls, depths>>

anaFrame == <<project_root, bootVars, indexVars, callVars, findVars>>

AnaNext ==
    \/ GetFunctionDepths /\ UNCHANGED anaFrame
    \/ BuildResultsJson /\ UNCHANGED anaFrame

\* find_items_with_different_depths called on one item's paths, the hops
\* without tokens (the items' equality and their keys then agree): paths of
\* one to three hops from different and from shared roots, a path with a hop
\* twice, a path that does not end at the item, and the empty path
PathPool ==
    { <<X("none")>>, <<R1, X("none")>>, <<R2, X("none")>>, <<R3, M, X("none")>>,
      <<R1, M, X("none")>>, <<M, M, X("none")>>, <<R3>>, <<>> }

FindIdle ==
    /\ fpc = "idle"
    /\ fdepths = <<>>
    /\ flagged = {}

FindInit ==
    /\ fpc = "start"
    /\ \E paths \in SeqsUpTo(PathPool, MaxPaths) :
          fdepths = << <<X("none"), paths>> >>
    /\ flagged = {}

FindItems ==
    /\ fpc = "start"
    /\ flagged' = find_items_with_different_depths(fdepths)
    /\ fpc' = "done"
    /\ UNCHANGED fdepths

findFrame == <<project_root, bootVars, indexVars, callVars, anaVars>>

FindNext ==
    \/ FindItems /\ UNCHANGED findFrame

---------------------------------------------------------------------------
(* Specifications *)

InitBootstrap ==
    /\ project_root = RootP
    /\ BootInit /\ IndexIdle /\ CallIdle /\ AnaIdle /\ FindIdle

SpecBootstrap == InitBootstrap /\ [][BootNext]_vars

InitIndexer ==
    /\ project_root \in ProjectRoots
    /\ BootIdle /\ IndexInit /\ CallIdle /\ AnaIdle /\ FindIdle

SpecIndexer == InitIndexer /\ [][IndexNext]_vars

InitCallGraph ==
    /\ project_root \in ProjectRoots
    /\ BootIdle /\ IndexIdle /\ CallInit /\ AnaIdle /\ FindIdle

SpecCallGraph == InitCallGraph /\ [][CallNext]_vars

InitAnalysis ==
    /\ project_root = RootP
    /\ BootIdle /\ IndexIdle /\ CallIdle /\ AnaInit /\ FindIdle

SpecAnalysis == InitAnalysis /\ [][AnaNext]_vars

InitFind ==
    /\ project_root = RootP
    /\ BootIdle /\ IndexIdle /\ CallIdle /\ AnaIdle /\ FindInit

SpecFind == InitFind /\ [][FindNext]_vars

---------------------------------------------------------------------------
(* Claims *)

\* p is a prefix of s, position by position
IsPrefix(p, s) ==
    Len(p) <= Len(s) /\ \A k \in 1..Len(p) : s[k] = p[k]

Enabled(provider) == provider \in {"true", "options"}

AllThreeAdvertised(caps) ==
    /\ Enabled(caps.workspace_symbol_provider)
    /\ Enabled(caps.document_symbol_provider)
    /\ Enabled(caps.call_hierarchy_provider)

\* C7: when the initialize request succeeds, init returns (and main goes on)
\* if and only if the workspace-symbol, document-symbol and call-hierarchy
\* providers are all advertised as true or as options; otherwise the run
\* aborts inside init, and no workspace-symbol, document-symbol or
\* incoming-calls request is ever sent.
C7_CapabilityGate ==
    /\ (initResult.tag = "ok" /\ bpc \notin {"start", "init_answered"})
          => (bpc # "init_panicked" <=> AllThreeAdvertised(initResult.caps))
    /\ bpc = "init_panicked" => (initResult.tag = "ok" /\ sent = {"initialize"})
    /\ sent \cap required_methods # {}
          => (initResult.tag = "ok" /\ AllThreeAdvertised(initResult.caps))

\* C7 witness: init has aborted on a server whose call-hierarchy provider is
\* the boolean false while the two others are advertised.
C7_Witness ==
    /\ bpc = "init_panicked"
    /\ initResult.caps.workspace_symbol_provider = "options"
    /\ initResult.caps.document_symbol_provider = "true"
    /\ initResult.caps.call_hierarchy_provider = "false"

\* C4: if every "#" attempt returns -32801, exactly floor(W / 100 ms) retries
\* are made before the indexing-timeout error is returned, for every W
\* (W < 100 ms: no retry, then the timeout error), and the retry counter
\* never goes below zero.
C4_RetryBound ==
    /\ iret.tag = "timeout"
          => hashQueries - 1 = max_duration \div retry_sleep_duration
    /\ ~retries_left.wrapped
    /\ ipc # "overflow_panicked"

\* C9: a protocol error with a code other than -32801 returned by any
\* workspace-symbol query of the indexing (the "#" query and its retries, the
\* empty-string query, a single-letter query) is fatal: no further query is
\* sent and no file set is returned.
C9_AnyQueryErrorFatal ==
    errPhases # {}
       => (ipc = "assert_panicked" /\ ~sentAfterError /\ iret.tag # "ok")

\* C5: every edge get_function_calls has pushed has a caller whose URI starts
\* with the project root URI, wherever the callee's file lies.
C5_CallersInsideRoot ==
    \A i \in 1..Len(calls) : IsPrefix(project_root, calls[i][1].uri)

\* C5 witness: the function returned edges, some callee outside the root,
\* after a response that named a caller outside the root.
C5_Witness ==
    /\ gpc = "returned_ok"
    /\ \E i \in 1..Len(calls) : ~IsPrefix(project_root, calls[i][2].uri)
    /\ \E i \in 1..Len(responses) :
          \E j \in 1..Len(responses[i].callers) :
             ~IsPrefix(project_root, responses[i].callers[j].uri)

\* The in-project edges of the i-th definition's response, none when the
\* query failed or found nothing
Contribution(i) ==
    IF responses[i].tag = "some"
    THEN LET InProject(caller) == IsPrefix(project_root, caller.uri)
             kept == SelectSeq(responses[i].callers, InProject)
         IN  [j \in 1..Len(kept) |-> <<kept[j], target_item(exact_definitions[i])>>]
    ELSE <<>>

RECURSIVE Contributions(_)
Contributions(n) ==
    IF n = 0 THEN <<>> ELSE Contributions(n - 1) \o Contribution(n)

\* C10: a failed incoming-calls query makes its definition contribute no
\* edge and nothing else: every definition is still queried, the function
\* returns successfully, and the edges are exactly the in-project edges of the
\* definitions whose queries succeeded, each definition's own.
C10_FailedQueryIsolated ==
    /\ gpc \in {"calls", "returned_ok"} => calls = Contributions(Len(responses))
    /\ gpc = "returned_ok" => Len(responses) = Len(exact_definitions)
    /\ responses # <<>> => gpc \in {"calls", "returned_ok"}

\* C10 witness: the function returned edges of a definition queried after
\* one whose query failed.
C10_Witness ==
    /\ gpc = "returned_ok"
    /\ \E i, j \in 1..Len(responses) :
          /\ i < j
          /\ responses[i].tag = "err"
          /\ Contribution(j) # <<>>

KeyPath(path) == [h \in 1..Len(path) |-> Key(path[h])]

NodeKeys(edges) ==
    {Key(edges[i][1]) : i \in 1..Len(edges)} \cup {Key(edges[i][2]) : i \in 1..Len(edges)}

EdgeKeys(edges) == {<<Key(edges[i][1]), Key(edges[i][2])>> : i \in 1..Len(edges)}

RootKeys(edges) ==
    {Key(edges[i][1]) : i \in 1..Len(edges)} \ {Key(edges[i][2]) : i \in 1..Len(edges)}

RECURSIVE SimplePathsOfLen(_, _)
\* The key sequences of n hops that start at a root, follow an edge at every
\* step and have no key twice
SimplePathsOfLen(edges, n) ==
    IF n = 1 THEN {<<r>> : r \in RootKeys(edges)}
    ELSE UNION {{Append(s, k) : k \in {k \in NodeKeys(edges) \ Range(s) :
                                         <<s[Len(s)], k>> \in EdgeKeys(edges)}} :
                s \in SimplePathsOfLen(edges, n - 1)}

\* The simple paths from a root along the edges, as key sequences
SimpleRootPaths(edges) ==
    UNION {SimplePathsOfLen(edges, n) : n \in 1..Cardinality(NodeKeys(edges))}

Scenario == << <<R3, M>>, <<M, X("none")>>, <<R1, X("none")>> >>

\* C2: for every edge list, cycles included, the paths recorded for an item
\* are exactly the simple paths from a root (an item that is no edge's
\* callee) to it along the edges, every root has the path of itself alone,
\* and no item with such a path is missing; for the edges (A,B), (B,C), (D,C)
\* C gets exactly [A,B,C] and [D,C].
C2_SimplePathsFromRoots ==
    apc \in {"depths", "json"} =>
       LET simple == SimpleRootPaths(non_test_calls)
           Recorded(e) == {KeyPath(depths[e][2][p]) : p \in 1..Len(depths[e][2])}
       IN  /\ \A e \in 1..Len(depths) :
                Recorded(e) = {s \in simple : s[Len(s)] = Key(depths[e][1])}
           /\ \A s \in simple : \E e \in 1..Len(depths) : Key(depths[e][1]) = s[Len(s)]
           /\ \A r \in RootKeys(non_test_calls) :
                \E e \in 1..Len(depths) : Key(depths[e][1]) = r /\ Recorded(e) = {<<r>>}
           /\ non_test_calls = Scenario =>
                \E e \in 1..Len(depths) :
                   /\ Key(depths[e][1]) = Key(M)
                   /\ Recorded(e) = {KeyPath(<<R3, M>>)}
           /\ non_test_calls = Scenario =>
                \E e \in 1..Len(depths) :
                   /\ Key(depths[e][1]) = Key(X("none"))
                   /\ Recorded(e) = {KeyPath(<<R3, M, X("none")>>),
                                     KeyPath(<<R1, X("none")>>)}

\* C2 witness: the analysis of an edge list with the cycle R1 -> X -> R1,
\* entered from the root R2, has ended with the path R2, X, R1 recorded.
C2_Witness ==
    /\ apc = "depths"
    /\ non_test_calls = << <<R1, X("none")>>, <<X("t1"), R1>>, <<R2, X("none")>> >>
    /\ \E e \in 1..Len(depths) :
          /\ Key(depths[e][1]) = Key(R1)
          /\ KeyPath(depths[e][2][1]) = KeyPath(<<R2, X("none"), R1>>)

RECURSIVE Flatten(_)
\* The (item, path) pairs of every root's traversal, in order
Flatten(depths_by_root) ==
    IF depths_by_root = <<>> THEN <<>>
    ELSE Head(depths_by_root)[2] \o Flatten(Tail(depths_by_root))

\* The paths contributed for the item with key k, in order
ContributedPaths(contributed, k) ==
    LET ForKey(c) == Key(c[1]) = k
        mine == SelectSeq(contributed, ForKey)
    IN  [i \in 1..Len(mine) |-> mine[i][2]]

\* C3: the path list of every item of the result holds each path that a
\* root's traversal contributed for that item, once per contribution and
\* nothing else; every item some root contributed is a key, and no two keys
\* are the same item.
C3_AggregationIsUnion ==
    apc \in {"depths", "json"} =>
       LET contributed == Flatten(get_depths(non_test_calls))
       IN  /\ \A e \in 1..Len(depths) :
                depths[e][2] = ContributedPaths(contributed, Key(depths[e][1]))
           /\ \A c \in 1..Len(contributed) :
                \E e \in 1..Len(depths) : Key(depths[e][1]) = Key(contributed[c][1])
           /\ \A e, f \in 1..Len(depths) :
                e # f => Key(depths[e][1]) # Key(depths[f][1])

\* C3 witness: an item of the result holds paths from two different roots.
C3_Witness ==
    /\ apc = "depths"
    /\ \E e \in 1..Len(depths) :
          \E p, q \in 1..Len(depths[e][2]) :
             Key(depths[e][2][p][1]) # Key(depths[e][2][q][1])

\* C1: find_items_with_different_depths flags an item if and only if its
\* paths have more than one distinct length and, over all of its paths
\* together, no hop other than the item itself occurs twice (neither in two
\* paths nor twice in one).
C1_FlaggedIffDepthsDifferAndHopsDistinct ==
    fpc = "done" =>
       LET item == fdepths[1][1]
           paths == fdepths[1][2]
           others == UNION {{<<p, h>> : h \in {h \in 1..Len(paths[p]) :
                                                    Key(paths[p][h]) # Key(item)}} :
                            p \in 1..Len(paths)}
           lengthsDiffer == \E p, q \in 1..Len(paths) : Len(paths[p]) # Len(paths[q])
           hopsDistinct ==
               \A a, b \in others :
                  a # b => Key(paths[a[1]][a[2]]) # Key(paths[b[1]][b[2]])
       IN  /\ Key(item) \in flagged <=> (lengthsDiffer /\ hopsDistinct)
           /\ flagged \subseteq {Key(item)}

\* C1 witness: the item was flagged on paths of lengths 2, 2 and 3 through
\* different hops.
C1_Witness ==
    /\ fpc = "done"
    /\ fdepths[1][2] = << <<R1, X("none")>>, <<R2, X("none")>>, <<R3, M, X("none")>> >>
    /\ flagged = {Key(X("none"))}

EraseData(item) == [item EXCEPT !.data = "none"]

EraseCalls(edges) ==
    [i \in 1..Len(edges) |-> <<EraseData(edges[i][1]), EraseData(edges[i][2])>>]

C8_BucketsPartitionItems ==
    apc = "json" =>
       LET short == build_short_fn_depths(project_root, depths)
       IN  \A e \in 1..Len(depths) :
              LET item_name == build_call_hierarchy_item_name(depths[e][1], project_root)
                  isFlagged == Key(depths[e][1]) \in find_items_with_different_depths(depths)
                  inProblems == item_name \in DOMAIN results_json.problems
                  inOk == item_name \in DOMAIN results_json.ok
              IN  /\ inProblems # inOk
                  /\ inProblems <=> isFlagged
                  /\ inProblems => results_json.problems[item_name] = short[e][2]
                  /\ inOk => results_json.ok[item_name] = short[e][2]

===========================================================================
